---------------------------- MODULE Spec2Model ----------------------------
(***************************************************************************)
(* Model of ndarray-rand (src/ndarray-rand/src/lib.rs): the RandomExt      *)
(* constructors `random` / `random_using` and the F32 precision adapter.   *)
(*                                                                         *)
(* A caller (thread) owns an RNG instance and a distribution value.  A     *)
(* construction call is modelled step by step: entry (shape resolution and *)
(* the overflow-checked element count), one step per element (one call of  *)
(* the closure `|_| dist.ind_sample(rng)`), and the return of the array.   *)
(***************************************************************************)
EXTENDS Integers, Sequences, FiniteSets, TLC

(***************************************************************************)
(* Bounds of the model.                                                    *)
(***************************************************************************)
\* per-axis extents range over 0..MaxExtent
MaxExtent == 3
\* the largest value of the index integer (usize::MAX, scaled down)
MaxIndex == 4
\* the RNG has RngMod states
RngMod == 8

(***************************************************************************)
(* Floating point.  An f64 is kept exactly: kind k ("num", "zero", "inf",  *)
(* "nan"), sign s, unbiased exponent e, and its 53-bit significand split   *)
(* into the 24 high bits hi (2^23 <= hi < 2^24 for a number) and the 29    *)
(* low bits lo, so that the value is (hi + lo / 2^29) * 2^(e - 23).  An    *)
(* f32 has kind, sign, exponent e in F32MinExp..F32MaxExp and a 24-bit     *)
(* significand m; m < 2^23 with e = F32MinExp is a subnormal.              *)
(***************************************************************************)
F32SigBits == 24
F64LowBits == 29
F32MaxExp == 127
F32MinExp == -126

Hidden == 2 ^ (F32SigBits - 1)
SigTop == 2 ^ F32SigBits
LowTop == 2 ^ F64LowBits
LowHalf == 2 ^ (F64LowBits - 1)

F64(k, s, e, hi, lo) == [k |-> k, s |-> s, e |-> e, hi |-> hi, lo |-> lo]
F32v(k, s, e, m) == [k |-> k, s |-> s, e |-> e, m |-> m]

F32Inf(s) == F32v("inf", s, 0, 0)
F32Zero(s) == F32v("zero", s, 0, 0)
F32NaN == F32v("nan", 0, 0, 0)

\* a significand m1 in 0..2^24 at exponent e, normalised to an f32
F32Pack(s, e, m1) ==
    IF m1 = 0 THEN F32Zero(s)
    ELSE IF m1 = SigTop
         THEN (IF e + 1 > F32MaxExp THEN F32Inf(s) ELSE F32v("num", s, e + 1, Hidden))
         ELSE F32v("num", s, e, m1)

\* whether narrowing rounds away from zero: q the kept bits, r the dropped
\* high bits, half their midpoint (0 when only the 29 low bits are dropped),
\* low the 29 low bits.  "nearest" is round to nearest, ties to even;
\* "zero" is round toward zero (truncation).
Up(mode, q, r, half, low) ==
    IF mode = "zero" THEN FALSE
    ELSE IF half = 0
         THEN low > LowHalf \/ (low = LowHalf /\ q % 2 = 1)
         ELSE r > half \/ (r = half /\ low > 0) \/ (r = half /\ low = 0 /\ q % 2 = 1)

\* narrowing of an f64 to an f32 under a rounding mode
F32Narrow(x, mode) ==
    CASE x.k = "nan" -> F32NaN
      [] x.k = "inf" -> F32Inf(x.s)
      [] x.k = "zero" -> F32Zero(x.s)
      [] OTHER ->
           IF x.e > F32MaxExp THEN F32Inf(x.s)
           ELSE IF x.e >= F32MinExp
                THEN F32Pack(x.s, x.e, x.hi + (IF Up(mode, x.hi, 0, 0, x.lo) THEN 1 ELSE 0))
                ELSE LET shift == F32MinExp - x.e
                     IN  IF shift > F32SigBits THEN F32Zero(x.s)
                         ELSE LET q == x.hi \div (2 ^ shift)
                                  r == x.hi % (2 ^ shift)
                                  half == 2 ^ (shift - 1)
                              IN  F32Pack(x.s, F32MinExp,
                                          q + (IF Up(mode, q, r, half, x.lo) THEN 1 ELSE 0))

\* the f32 truncation of an f64: the dropped bits are discarded
TruncF32(x) == F32Narrow(x, "zero")

\* the Rust cast `x as f32` (lib.rs lines 122 and 134): the nearest f32,
\* ties to even, infinity beyond the f32 range
AsF32(x) == F32Narrow(x, "nearest")

\* the f64 values the modelled distributions can produce
F64Vals ==
    << F64("num", 0, 0, Hidden, 0),
       F64("num", 0, 0, Hidden, LowHalf + 1),
       F64("num", 0, 1, Hidden, LowHalf),
       F64("num", 0, 1, Hidden + 1, LowHalf),
       F64("num", 1, -3, Hidden + 5, LowHalf - 1),
       F64("num", 0, 2, SigTop - 1, LowTop - 1),
       F64("num", 0, F32MaxExp, SigTop - 1, LowHalf),
       F64("num", 1, 300, Hidden, 0),
       F64("num", 0, -130, Hidden + 8, 1),
       F64("num", 0, -160, Hidden, 0),
       F64("zero", 1, 0, 0, 0),
       F64("inf", 0, 0, 0, 0) >>

NVals == Len(F64Vals)

(***************************************************************************)
(* The RNG (rand::Rng): a deterministic stream of outputs.                 *)
(***************************************************************************)
RngStates == 0 .. (RngMod - 1)

\* one output of the RNG and the state it is left in
NextU(r) == [out |-> r, rng |-> (5 * r + 3) % RngMod]

(***************************************************************************)
(* Distributions.  A distribution value d is [f32, kind, cache]: f32 says  *)
(* that it is F32(inner); kind "uniform" consumes one RNG output per       *)
(* sample, kind "pair" two; cache is the stateful variant's retained       *)
(* sample (an index of F64Vals, 0 when empty).                             *)
(***************************************************************************)
ValOf(i) == F64Vals[(i % NVals) + 1]

Kinds == {"uniform", "pair"}

\* IndependentSample<f64>::ind_sample(&self, rng) of the inner distribution
D64_ind_sample(d, r) ==
    IF d.kind = "uniform"
    THEN LET o == NextU(r)
         IN  [val |-> ValOf(o.out), rng |-> o.rng, dist |-> d]
    ELSE LET o1 == NextU(r)
             o2 == NextU(o1.rng)
         IN  [val |-> ValOf(o1.out + 5 * o2.out), rng |-> o2.rng, dist |-> d]

\* Sample<f64>::sample(&mut self, rng) of the inner distribution: "pair"
\* produces two samples per two outputs and retains the second
D64_sample(d, r) ==
    IF d.kind = "uniform"
    THEN D64_ind_sample(d, r)
    ELSE IF d.cache # 0
         THEN [val |-> F64Vals[d.cache], rng |-> r, dist |-> [d EXCEPT !.cache = 0]]
         ELSE LET o1 == NextU(r)
                  o2 == NextU(o1.rng)
              IN  [val |-> ValOf(o1.out), rng |-> o2.rng,
                   dist |-> [d EXCEPT !.cache = (o2.out % NVals) + 1]]

\* a faulty adapter: narrows by truncation
F32_sample_trunc(d, r) ==
    LET i == D64_sample(d, r)
    IN  [val |-> TruncF32(i.val), rng |-> i.rng, dist |-> i.dist, inner |-> <<i.val>>]

\* impl Sample<f32> for F32<S>: self.0.sample(rng) as f32
F32_sample(d, r) ==
    LET i == D64_sample(d, r)
    IN  [val |-> AsF32(i.val), rng |-> i.rng, dist |-> i.dist, inner |-> <<i.val>>]

\* impl IndependentSample<f32> for F32<S>: self.0.ind_sample(rng) as f32
F32_ind_sample(d, r) ==
    LET i == D64_ind_sample(d, r)
    IN  [val |-> AsF32(i.val), rng |-> i.rng, dist |-> i.dist, inner |-> <<i.val>>]

\* IdS::ind_sample for the distribution passed to random / random_using
IndSample(d, r) ==
    IF d.f32
    THEN LET s == F32_ind_sample(d, r) IN [val |-> s.val, rng |-> s.rng, dist |-> s.dist]
    ELSE D64_ind_sample(d, r)

\* IdS::sample, the stateful variant
Sample(d, r) ==
    IF d.f32
    THEN LET s == F32_sample(d, r) IN [val |-> s.val, rng |-> s.rng, dist |-> s.dist]
    ELSE D64_sample(d, r)

\* a faulty closure: samples through the stateful variant
ClosureStateful(d, r) ==
    LET s == Sample(d, r)
    IN  [val |-> s.val, rng |-> s.rng, dist |-> s.dist, drawn |-> <<s.val>>]

\* a faulty closure: draws two samples for an element and stores the second
ClosureTwice(d, r) ==
    LET s == IndSample(d, r)
        u == IndSample(s.dist, s.rng)
    IN  [val |-> u.val, rng |-> u.rng, dist |-> u.dist, drawn |-> <<s.val, u.val>>]

\* the closure of random_using, |_| dist.ind_sample(rng): the element it
\* returns, the RNG and the distribution after it, and the samples it drew
Closure(d, r) ==
    LET s == IndSample(d, r)
    IN  [val |-> s.val, rng |-> s.rng, dist |-> s.dist, drawn |-> <<s.val>>]

(***************************************************************************)
(* Shapes: Ix0, Ix1 and Ix2 dimensions with extents in 0..MaxExtent.       *)
(***************************************************************************)
Extents == 0 .. MaxExtent
Shapes == {<< >>} \cup {<<a>> : a \in Extents} \cup {<<a, b>> : a \in Extents, b \in Extents}

RECURSIVE Product(_)
Product(sh) == IF sh = << >> THEN 1 ELSE Head(sh) * Product(Tail(sh))

HasZero(sh) == \E i \in 1 .. Len(sh) : sh[i] = 0

\* the overflow-checked element count: -1 when the product of the extents
\* exceeds the largest index
SizeChecked(sh) == IF Product(sh) > MaxIndex THEN -1 ELSE Product(sh)

(***************************************************************************)
(* State.  Every variable is a function of the caller (thread).            *)
(***************************************************************************)
VARIABLES
    pc,        \* "off", "idle", "fill", "done" or "panicked"
    budget,    \* construction calls the caller may still make
    dist,      \* the caller's distribution value
    rng,       \* the caller's own RNG instance
    tmp,       \* the RNG created by rand::weak_rng() for a `random` call, or -1
    ref,       \* which RNG the running call borrows: "caller" or "temp"
    req,       \* the shape the caller passed to the running / last call
    shape,     \* the shape from_shape_fn was handed
    alloc,     \* whether the call has allocated its backing storage
    v,         \* the elements produced so far, in traversal order
    arr,       \* the array the last call returned
    rng0,      \* the state of the RNG random_using was handed
    dist0,     \* the distribution as it was when the call was made
    obtained,  \* the state of the default RNG when `random` obtained it, or -1
    log,       \* every sample drawn from the distribution during the call
    origin,    \* the initial state of the caller's RNG
    stream,    \* the elements of all arrays random_using returned to the caller
    last       \* the last direct call of the F32 adapter

vars == <<pc, budget, dist, rng, tmp, ref, req, shape, alloc, v, arr, rng0, dist0,
          obtained, log, origin, stream, last>>

Threads == {1, 2}

NoArray == [some |-> FALSE, dim |-> << >>, data |-> << >>]
NoDist == [f32 |-> FALSE, kind |-> "uniform", cache |-> 0]
NoLast == [op |-> "none", d0 |-> NoDist, r0 |-> 0, val |-> F32NaN,
           inner |-> << >>, d1 |-> NoDist, r1 |-> 0]

\* the distributions a caller may hold
Dists ==
    {[f32 |-> f, kind |-> "uniform", cache |-> 0] : f \in BOOLEAN}
    \cup {[f32 |-> f, kind |-> "pair", cache |-> c] : f \in BOOLEAN, c \in {0, 1}}

\* a shared-RNG fault: every call borrows the RNG instance of thread 1
SharedSlot(t) == 1

\* the RNG instance `rng: &mut R` of a call by thread t refers to: its own
RngSlot(t) == t

\* the state of the RNG the running call of t borrows
CurRng(t) == IF ref[t] = "caller" THEN rng[RngSlot(t)] ELSE tmp[t]

\* ArrayBase::from_shape_fn, entry: the shape is resolved, the element count
\* is computed with overflow checking (a panic on overflow, before anything
\* is allocated), then the storage is allocated
FromShapeFn(t, sh, d, rf, r) ==
    /\ shape' = [shape EXCEPT ![t] = sh]
    /\ dist' = [dist EXCEPT ![t] = d]
    /\ ref' = [ref EXCEPT ![t] = rf]
    /\ IF rf = "caller"
       THEN /\ rng' = [rng EXCEPT ![RngSlot(t)] = r]
            /\ tmp' = [tmp EXCEPT ![t] = -1]
       ELSE /\ tmp' = [tmp EXCEPT ![t] = r]
            /\ UNCHANGED rng
    /\ v' = [v EXCEPT ![t] = << >>]
    /\ arr' = [arr EXCEPT ![t] = NoArray]
    /\ IF SizeChecked(sh) = -1
       THEN /\ pc' = [pc EXCEPT ![t] = "panicked"]
            /\ alloc' = [alloc EXCEPT ![t] = FALSE]
       ELSE /\ pc' = [pc EXCEPT ![t] = "fill"]
            /\ alloc' = [alloc EXCEPT ![t] = TRUE]

\* a faulty random_using: draws one sample before building the array
RandomUsingPreDraw(t, sh, d, rf, r) ==
    /\ rng0' = [rng0 EXCEPT ![t] = r]
    /\ log' = [log EXCEPT ![t] = <<IndSample(d, r).val>>]
    /\ FromShapeFn(t, sh, d, rf, IndSample(d, r).rng)

\* a faulty random_using: builds the array over the shape without its first axis
RandomUsingDropAxis(t, sh, d, rf, r) ==
    /\ rng0' = [rng0 EXCEPT ![t] = r]
    /\ log' = [log EXCEPT ![t] = << >>]
    /\ FromShapeFn(t, IF sh = << >> THEN sh ELSE Tail(sh), d, rf, r)

\* a faulty random_using: ignores the RNG it is handed and samples from a
\* freshly seeded one (two seeds are enough to tell the difference)
RandomUsingFreshRng(t, sh, d, rf, r) ==
    /\ rng0' = [rng0 EXCEPT ![t] = r]
    /\ log' = [log EXCEPT ![t] = << >>]
    /\ \E seed \in {0, 1} : FromShapeFn(t, sh, d, "temp", seed)

\* RandomExt::random_using(shape, dist, rng):
\*   Self::from_shape_fn(shape, |_| dist.ind_sample(rng))
RandomUsing(t, sh, d, rf, r) ==
    /\ rng0' = [rng0 EXCEPT ![t] = r]
    /\ log' = [log EXCEPT ![t] = << >>]
    /\ FromShapeFn(t, sh, d, rf, r)

\* a faulty random: takes one output of the default RNG before delegating
RandomSkipsOne(t, sh, d, seed) == RandomUsing(t, sh, d, "temp", NextU(seed).rng)

\* RandomExt::random(shape, dist):
\*   Self::random_using(shape, dist, &mut rand::weak_rng())
Random(t, sh, d, seed) == RandomUsing(t, sh, d, "temp", seed)

\* the caller calls random_using with its own RNG
CallRandomUsing(t) ==
    /\ pc[t] \in {"idle", "done"}
    /\ budget[t] > 0
    /\ \E sh \in Shapes :
          /\ RandomUsing(t, sh, dist[t], "caller", rng[t])
          /\ req' = [req EXCEPT ![t] = sh]
    /\ budget' = [budget EXCEPT ![t] = @ - 1]
    /\ dist0' = [dist0 EXCEPT ![t] = dist[t]]
    /\ obtained' = [obtained EXCEPT ![t] = -1]
    /\ UNCHANGED <<origin, stream, last>>

\* the caller calls random; weak_rng() returns an automatically seeded RNG
CallRandom(t) ==
    /\ pc[t] \in {"idle", "done"}
    /\ budget[t] > 0
    /\ \E sh \in Shapes, seed \in RngStates :
          /\ Random(t, sh, dist[t], seed)
          /\ req' = [req EXCEPT ![t] = sh]
          /\ obtained' = [obtained EXCEPT ![t] = seed]
    /\ budget' = [budget EXCEPT ![t] = @ - 1]
    /\ dist0' = [dist0 EXCEPT ![t] = dist[t]]
    /\ UNCHANGED <<origin, stream, last>>

\* from_shape_fn, one element: the closure is called for the next position
\* in traversal order and its value is stored there
Draw(t) ==
    /\ pc[t] = "fill"
    /\ Len(v[t]) < SizeChecked(shape[t])
    /\ LET c == Closure(dist[t], CurRng(t))
       IN  /\ v' = [v EXCEPT ![t] = Append(@, c.val)]
           /\ log' = [log EXCEPT ![t] = @ \o c.drawn]
           /\ dist' = [dist EXCEPT ![t] = c.dist]
           /\ IF ref[t] = "caller"
              THEN rng' = [rng EXCEPT ![RngSlot(t)] = c.rng] /\ UNCHANGED tmp
              ELSE tmp' = [tmp EXCEPT ![t] = c.rng] /\ UNCHANGED rng
    /\ UNCHANGED <<pc, budget, ref, req, shape, alloc, arr, rng0, dist0, obtained,
                   origin, stream, last>>

\* from_shape_fn, return: the filled storage becomes the array of the
\* requested shape; the RNG of a `random` call is dropped
Return(t) ==
    /\ pc[t] = "fill"
    /\ Len(v[t]) = SizeChecked(shape[t])
    /\ arr' = [arr EXCEPT ![t] = [some |-> TRUE, dim |-> shape[t], data |-> v[t]]]
    /\ pc' = [pc EXCEPT ![t] = "done"]
    /\ v' = [v EXCEPT ![t] = << >>]
    /\ alloc' = [alloc EXCEPT ![t] = FALSE]
    /\ tmp' = [tmp EXCEPT ![t] = -1]
    /\ stream' = [stream EXCEPT ![t] = IF ref[t] = "caller" THEN @ \o v[t] ELSE @]
    /\ UNCHANGED <<budget, dist, rng, ref, req, shape, rng0, dist0, obtained, log,
                   origin, last>>

\* the caller samples its F32 adapter directly through Sample<f32>
SampleF32(t) ==
    /\ pc[t] = "idle"
    /\ dist[t].f32
    /\ LET s == F32_sample(dist[t], rng[t])
       IN  /\ dist' = [dist EXCEPT ![t] = s.dist]
           /\ rng' = [rng EXCEPT ![t] = s.rng]
           /\ last' = [last EXCEPT ![t] =
                         [op |-> "sample", d0 |-> dist[t], r0 |-> rng[t], val |-> s.val,
                          inner |-> s.inner, d1 |-> s.dist, r1 |-> s.rng]]
    /\ UNCHANGED <<pc, budget, tmp, ref, req, shape, alloc, v, arr, rng0, dist0,
                   obtained, log, origin, stream>>

\* the caller samples its F32 adapter directly through IndependentSample<f32>
IndSampleF32(t) ==
    /\ pc[t] = "idle"
    /\ dist[t].f32
    /\ LET s == F32_ind_sample(dist[t], rng[t])
       IN  /\ dist' = [dist EXCEPT ![t] = s.dist]
           /\ rng' = [rng EXCEPT ![t] = s.rng]
           /\ last' = [last EXCEPT ![t] =
                         [op |-> "ind_sample", d0 |-> dist[t], r0 |-> rng[t], val |-> s.val,
                          inner |-> s.inner, d1 |-> s.dist, r1 |-> s.rng]]
    /\ UNCHANGED <<pc, budget, tmp, ref, req, shape, alloc, v, arr, rng0, dist0,
                   obtained, log, origin, stream>>

\* the part of the initial state that does not depend on the scenario
InitCommon ==
    /\ tmp = [t \in Threads |-> -1]
    /\ ref = [t \in Threads |-> "caller"]
    /\ req = [t \in Threads |-> << >>]
    /\ shape = [t \in Threads |-> << >>]
    /\ alloc = [t \in Threads |-> FALSE]
    /\ v = [t \in Threads |-> << >>]
    /\ arr = [t \in Threads |-> NoArray]
    /\ rng0 = [t \in Threads |-> -1]
    /\ dist0 = dist
    /\ obtained = [t \in Threads |-> -1]
    /\ log = [t \in Threads |-> << >>]
    /\ origin = rng
    /\ stream = [t \in Threads |-> << >>]
    /\ last = [t \in Threads |-> NoLast]

\* one caller that makes two consecutive construction calls
Init ==
    /\ pc = [t \in Threads |-> IF t = 1 THEN "idle" ELSE "off"]
    /\ budget = [t \in Threads |-> IF t = 1 THEN 2 ELSE 0]
    /\ \E d \in Dists : dist = [t \in Threads |-> IF t = 1 THEN d ELSE NoDist]
    /\ \E r \in RngStates : rng = [t \in Threads |-> IF t = 1 THEN r ELSE 0]
    /\ InitCommon

Next ==
    \E t \in Threads :
        \/ CallRandomUsing(t)
        \/ CallRandom(t)
        \/ Draw(t)
        \/ Return(t)

Spec == Init /\ [][Next]_vars

\* two callers on separate threads, each with its own RNG instance and its
\* own distribution value, each making one random_using call
ConcDists == {d \in Dists : d.cache = 0}
ConcSeeds == {0, 3}

InitConc ==
    /\ pc = [t \in Threads |-> "idle"]
    /\ budget = [t \in Threads |-> 1]
    /\ dist \in [Threads -> ConcDists]
    /\ rng \in [Threads -> ConcSeeds]
    /\ InitCommon

NextConc ==
    \E t \in Threads :
        \/ CallRandomUsing(t)
        \/ Draw(t)
        \/ Return(t)

SpecConc == InitConc /\ [][NextConc]_vars

\* one caller that samples an F32 adapter directly, any number of times
InitAdapter ==
    /\ pc = [t \in Threads |-> IF t = 1 THEN "idle" ELSE "off"]
    /\ budget = [t \in Threads |-> 0]
    /\ \E d \in {x \in Dists : x.f32} : dist = [t \in Threads |-> IF t = 1 THEN d ELSE NoDist]
    /\ \E r \in RngStates : rng = [t \in Threads |-> IF t = 1 THEN r ELSE 0]
    /\ InitCommon

NextAdapter ==
    \E t \in Threads :
        \/ SampleF32(t)
        \/ IndSampleF32(t)

SpecAdapter == InitAdapter /\ [][NextAdapter]_vars

(***************************************************************************)
(* Reference definitions used by the properties.                           *)
(***************************************************************************)
\* the first n samples of distribution d drawn independently from an RNG in
\* state r, and the state the RNG is left in
RECURSIVE Samples(_, _, _)
Samples(d, r, n) ==
    IF n = 0 THEN [vals |-> << >>, rng |-> r]
    ELSE LET s == IndSample(d, r)
             rest == Samples(d, s.rng, n - 1)
         IN  [vals |-> <<s.val>> \o rest.vals, rng |-> rest.rng]

\* the caller t has made a call, which is running or over
Called(t) == pc[t] \in {"fill", "done", "panicked"}

\* y is the f32 nearest to the f64 x, ties going to the even significand,
\* stated by the distance between the two and not by how it is computed
NearestF32(x, y) ==
    CASE x.k = "nan" -> y = F32NaN
      [] x.k = "inf" -> y = F32Inf(x.s)
      [] x.k = "zero" -> y = F32Zero(x.s)
      [] OTHER ->
           /\ y.s = x.s
           /\ CASE y.k = "inf" ->
                     \/ x.e > F32MaxExp
                     \/ x.e = F32MaxExp /\ x.hi = SigTop - 1 /\ x.lo >= LowHalf
                [] y.k = "zero" ->
                     \/ x.e < F32MinExp - F32SigBits
                     \/ x.e = F32MinExp - F32SigBits /\ x.hi = Hidden /\ x.lo = 0
                [] y.k = "num" ->
                     /\ y.e \in F32MinExp .. F32MaxExp
                     /\ y.m \in 1 .. (SigTop - 1)
                     /\ y.m < Hidden => y.e = F32MinExp
                     /\ IF x.e >= F32MinExp
                        THEN /\ x.e <= F32MaxExp
                             /\ \/ y.e = x.e
                                \/ y.e = x.e + 1 /\ y.m = Hidden
                             /\ LET ym == IF y.e = x.e THEN y.m ELSE SigTop
                                    D == ym - x.hi
                                IN  /\ D \in {0, 1}
                                    /\ D = 0 => x.lo <= LowHalf
                                    /\ D = 1 => x.lo >= LowHalf
                                    /\ x.lo = LowHalf => ym % 2 = 0
                        ELSE LET shift == F32MinExp - x.e
                             IN  /\ shift <= F32SigBits
                                 /\ y.e = F32MinExp
                                 /\ y.m <= 2 ^ (F32SigBits - shift)
                                 /\ LET D == y.m * (2 ^ shift) - x.hi
                                        H == 2 ^ (shift - 1)
                                    IN  /\ D <= H
                                        /\ -D <= H
                                        /\ -D = H => x.lo = 0
                                        /\ (D = H \/ -D = H) /\ x.lo = 0 => y.m % 2 = 0
                [] OTHER -> FALSE

(***************************************************************************)
(* Properties.                                                             *)
(***************************************************************************)

\* C1: for a shape whose element count fits the index range, random and
\* random_using do not panic and return an array whose shape is the shape
\* passed and whose length is the product of its extents.
ArrayHasShapeAndLength ==
    \A t \in Threads :
        (Called(t) /\ Product(req[t]) <= MaxIndex) =>
            /\ pc[t] # "panicked"
            /\ pc[t] = "done" =>
                  /\ arr[t].some
                  /\ arr[t].dim = req[t]
                  /\ Len(arr[t].data) = Product(req[t])

\* witness of C1: a call over a two-axis shape of more than two elements
\* has returned
ArrayReturnedWitness ==
    \E t \in Threads :
        pc[t] = "done" /\ Len(req[t]) = 2 /\ Product(req[t]) > 2 /\ arr[t].some

\* C2: with an axis of extent 0 the call returns an array of length 0, the
\* distribution is never sampled, and the RNG handed to random_using stays
\* in its initial state.
ZeroExtentNeverSamples ==
    \A t \in Threads :
        (Called(t) /\ HasZero(req[t])) =>
            /\ pc[t] # "panicked"
            /\ log[t] = << >>
            /\ v[t] = << >>
            /\ pc[t] = "fill" => CurRng(t) = rng0[t]
            /\ (pc[t] = "done" /\ ref[t] = "caller") => rng[t] = rng0[t]
            /\ pc[t] = "done" => (arr[t].some /\ Len(arr[t].data) = 0)

\* witness of C2: random_using over a two-axis shape with a zero extent and
\* a non-zero extent has returned
ZeroExtentWitness ==
    \E t \in Threads :
        /\ pc[t] = "done" /\ ref[t] = "caller"
        /\ Len(req[t]) = 2 /\ HasZero(req[t]) /\ \E i \in 1 .. 2 : req[t][i] > 1

\* C4: when the product of the extents exceeds the largest index the call
\* panics before any allocation and before any sample is drawn; no array,
\* complete or partial, exists and the RNG is untouched.
OverflowAbortsFirst ==
    \A t \in Threads :
        (Called(t) /\ Product(req[t]) > MaxIndex) =>
            /\ pc[t] = "panicked"
            /\ ~alloc[t]
            /\ v[t] = << >>
            /\ log[t] = << >>
            /\ arr[t] = NoArray
            /\ CurRng(t) = rng0[t]

\* witness of C4: a call over a shape whose element count overflows has
\* panicked
OverflowWitness ==
    \E t \in Threads : pc[t] = "panicked" /\ Product(req[t]) > MaxIndex

\* C6: the array is filled sequentially: while it is filled the elements
\* stored are the samples drawn so far, in the order drawn; when it returns
\* exactly N samples were drawn and the k-th element is the k-th sample.
SequentialFill ==
    \A t \in Threads :
        /\ pc[t] = "fill" =>
              /\ v[t] = log[t]
              /\ Len(v[t]) <= Product(req[t])
        /\ pc[t] = "done" =>
              /\ Len(log[t]) = Product(req[t])
              /\ arr[t].data = log[t]
              /\ arr[t].data = Samples(dist0[t], rng0[t], Product(req[t])).vals

\* witness of C6: a call over at least three elements has returned
SequentialFillWitness ==
    \E t \in Threads : pc[t] = "done" /\ Len(arr[t].data) >= 3 /\ Len(log[t]) >= 3

\* C7: random delegates to random_using with the default RNG as obtained:
\* random_using is handed the RNG in the state it was obtained in, the
\* result is the array random_using builds from that state, and the
\* caller's own RNG is not drawn from.
RandomDelegates ==
    \A t \in Threads :
        (Called(t) /\ obtained[t] # -1) =>
            /\ rng0[t] = obtained[t]
            /\ ref[t] = "temp"
            /\ shape[t] = req[t]
            /\ rng[t] = Samples(dist0[t], origin[t], Len(stream[t])).rng
            /\ pc[t] = "fill" => v[t] = Samples(dist0[t], obtained[t], Len(v[t])).vals
            /\ pc[t] = "done" =>
                  arr[t] = [some |-> TRUE, dim |-> req[t],
                            data |-> Samples(dist0[t], obtained[t], Product(req[t])).vals]

\* witness of C7: a `random` call over at least two elements has returned
RandomDelegatesWitness ==
    \E t \in Threads : pc[t] = "done" /\ obtained[t] # -1 /\ Len(arr[t].data) >= 2

\* C9: random_using advances the caller's RNG by the draws of its samples
\* and nothing else: the arrays of consecutive calls on one RNG are, in
\* order, consecutive pieces of the one sample stream drawn from the RNG's
\* initial state, and the RNG is left where that stream ends.
StreamContinues ==
    \A t \in Threads :
        pc[t] \in {"idle", "done"} =>
            LET S == Samples(dist0[t], origin[t], Len(stream[t]))
            IN  /\ stream[t] = S.vals
                /\ rng[t] = S.rng
                /\ (pc[t] = "done" /\ ref[t] = "caller") =>
                      /\ Len(arr[t].data) <= Len(stream[t])
                      /\ arr[t].data = SubSeq(stream[t],
                                              Len(stream[t]) - Len(arr[t].data) + 1,
                                              Len(stream[t]))

\* witness of C9: the second of two random_using calls, both over a
\* non-empty shape, has returned
StreamContinuesWitness ==
    \E t \in Threads :
        /\ pc[t] = "done" /\ budget[t] = 0 /\ ref[t] = "caller"
        /\ Len(arr[t].data) > 0
        /\ Len(stream[t]) > Len(arr[t].data)

\* C10: construction samples through the independent variant only: the
\* distribution is the same value during and after the call as before it,
\* and the elements do not depend on the state the distribution retains.
DistributionReadOnly ==
    \A t \in Threads :
        (pc[t] \in {"fill", "done"}) =>
            /\ dist[t] = dist0[t]
            /\ pc[t] = "done" =>
                  \A c \in 0 .. NVals :
                      arr[t].data =
                          Samples([dist0[t] EXCEPT !.cache = c], rng0[t],
                                  Product(req[t])).vals

\* witness of C10: a call with an F32 adapter around a distribution that
\* retains a sample has returned at least two elements
DistributionReadOnlyWitness ==
    \E t \in Threads :
        /\ pc[t] = "done" /\ Len(arr[t].data) >= 2
        /\ dist0[t].f32 /\ dist0[t].kind = "pair" /\ dist0[t].cache # 0

\* C3: two random_using calls with the same shape, the same distribution
\* and RNGs in the same initial state return the same array and leave
\* both RNGs in the same state.
Reproducible ==
    \A a, b \in Threads :
        (/\ pc[a] = "done" /\ pc[b] = "done"
         /\ req[a] = req[b] /\ dist0[a] = dist0[b] /\ rng0[a] = rng0[b]) =>
            /\ arr[a] = arr[b]
            /\ rng[a] = rng[b]

\* witness of C3: two callers have made the same call from the same RNG
\* state and both arrays, of at least two elements, are back
ReproducibleWitness ==
    /\ pc[1] = "done" /\ pc[2] = "done"
    /\ req[1] = req[2] /\ dist0[1] = dist0[2] /\ rng0[1] = rng0[2]
    /\ Len(arr[1].data) >= 2

\* C8: under every interleaving of two calls with disjoint RNGs and
\* distributions, each call builds the array it builds alone from its
\* RNG's initial state, and leaves its RNG where it leaves it alone.
ConcurrentCallsIndependent ==
    \A t \in Threads :
        /\ pc[t] = "fill" =>
              LET S == Samples(dist0[t], rng0[t], Len(v[t]))
              IN  v[t] = S.vals /\ rng[t] = S.rng
        /\ pc[t] = "done" =>
              LET S == Samples(dist0[t], rng0[t], Product(req[t]))
              IN  arr[t].data = S.vals /\ rng[t] = S.rng

\* witness of C8: both calls are in the middle of filling their arrays
ConcurrentWitness ==
    /\ pc[1] = "fill" /\ pc[2] = "fill"
    /\ Len(v[1]) >= 1 /\ Len(v[2]) >= 1
    /\ Len(v[1]) < Product(req[1]) /\ Len(v[2]) < Product(req[2])

\* C5 as stated: each value of the adapter is the f32 truncation of the one
\* f64 the inner distribution produces from the same RNG state.
AdapterTruncates ==
    \A t \in Threads :
        /\ last[t].op = "sample" =>
              last[t].val = TruncF32(D64_sample(last[t].d0, last[t].r0).val)
        /\ last[t].op = "ind_sample" =>
              last[t].val = TruncF32(D64_ind_sample(last[t].d0, last[t].r0).val)

\* C5 as amended: each value of the adapter, through sample and through
\* ind_sample, is the f32 nearest (ties to even, infinity beyond the f32
\* range) to the f64 the inner distribution produces from the same RNG
\* state; the adapter draws exactly one inner sample and leaves the RNG and
\* the inner distribution as that one inner sample leaves them.
AdapterRoundsToNearest ==
    \A t \in Threads :
        /\ last[t].op = "sample" =>
              LET i == D64_sample(last[t].d0, last[t].r0)
              IN  /\ last[t].inner = <<i.val>>
                  /\ NearestF32(i.val, last[t].val)
                  /\ last[t].r1 = i.rng
                  /\ last[t].d1 = i.dist
        /\ last[t].op = "ind_sample" =>
              LET i == D64_ind_sample(last[t].d0, last[t].r0)
              IN  /\ last[t].inner = <<i.val>>
                  /\ NearestF32(i.val, last[t].val)
                  /\ last[t].r1 = i.rng
                  /\ last[t].d1 = last[t].d0

\* witness of C5: the adapter has returned a value through the stateful
\* variant whose f64 lies strictly between two f32 values, above their
\* midpoint
AdapterWitness ==
    \E t \in Threads :
        /\ last[t].op = "sample"
        /\ Len(last[t].inner) = 1
        /\ last[t].inner[1].k = "num"
        /\ last[t].inner[1].lo > LowHalf

=============================================================================
